---- MODULE Spec2Model ----
(***************************************************************************)
(* Model of src/execute.py: main() reads data.csv, derives revenue, parses *)
(* the dates, computes four metrics and prints them as one JSON object.    *)
(*                                                                         *)
(* Cells of the CSV are modelled by what read_csv makes of them:           *)
(*   date    : a day number >= 1, NaT (empty cell) or BadDate (text that   *)
(*             to_datetime cannot parse);                                  *)
(*   region, product : a label, or NaN (empty cell);                       *)
(*   units, price    : a whole number, or BadNum (non-numeric text).       *)
(* Money is kept exact: sums are whole numbers, reported values are in     *)
(* hundredths (the result of round(float(x), 2)).                          *)
(***************************************************************************)
EXTENDS Integers, Sequences, FiniteSets

\* ---------------------------------------------------------------- bounds
MaxRows     == 4   \* rows of a table of the product family
MaxRollRows == 3   \* rows of a table of the region/date family
MaxBadRows  == 2   \* rows of a table of the missing/unparseable family

\* ------------------------------------------------------ program constants
n          == 3    \* top-N size
WindowDays == 7    \* rolling(window='7D')

\* ----------------------------------------------------------- cell values
NaT     == 0       \* empty date cell: to_datetime gives NaT
BadDate == -1      \* date text that to_datetime rejects
BadNum  == -1      \* units / price text that is not a number
NaN     == ""      \* empty region / product cell
None    == -1      \* JSON null in the rolling map

\* product labels in ascending (lexicographic) order, as groupby sorts them
ProductLabels == <<"A", "B", "C", "D">>
Products      == {ProductLabels[i] : i \in 1..Len(ProductLabels)}
Regions       == {"East", "east"}
Days          == {1, 2, 7, 8}

Row(d, r, p, u, pr) ==
    [date |-> d, region |-> r, product |-> p, units |-> u, price |-> pr]

\* rows that differ in product; a product's revenue grows with the number of
\* its rows, and the first two products also have a row of two units
TopRows  == {Row(1, "East", p, 1, 1) : p \in Products}
              \cup {Row(1, "East", p, 2, 1) : p \in {"A", "B"}}
\* rows that differ in region and date; a day's revenue grows with the number
\* of its rows, and the last day also has a row of two units
RollRows == {Row(d, r, "A", 1, 1) : d \in Days, r \in Regions}
              \cup {Row(8, r, "A", 2, 1) : r \in Regions}
\* rows with empty cells and with unparseable cells; a non-numeric units
\* cell comes with a non-numeric price cell (both columns are then text)
BadRows  == {Row(d, r, p, np[1], np[2]) :
                d \in {1, NaT, BadDate}, r \in {"East", NaN},
                p \in {"A", NaN}, np \in {<<1, 2>>, <<BadNum, BadNum>>}}

SeqsUpTo(S, k) == UNION {[1..m -> S] : m \in 0..k}

Tables == SeqsUpTo(TopRows, MaxRows) \cup SeqsUpTo(RollRows, MaxRollRows)
            \cup SeqsUpTo(BadRows, MaxBadRows)

VARIABLES
    fileExists,     \* data.csv can be opened
    table,          \* the rows of data.csv
    pc,             \* position of main()
    df,             \* the DataFrame
    ran,            \* aggregation blocks already executed, in order
    row_count,
    regions_count,
    top_products_list,
    rolling_7d_revenue_by_region,
    result_json,
    stdout,         \* sequence of objects printed
    error           \* exception that ended the run, or "none"

vars == <<fileExists, table, pc, df, ran, row_count, regions_count,
          top_products_list, rolling_7d_revenue_by_region, result_json,
          stdout, error>>

EmptyMap == [r \in {} |-> 0]
NoResult == [row_count |-> 0, regions_count |-> 0,
             top_n_products_by_revenue |-> << >>,
             rolling_7d_revenue_by_region |-> EmptyMap]

Init ==
    /\ fileExists \in BOOLEAN
    /\ table \in Tables
    /\ (~fileExists => table = << >>)
    /\ pc = "start"
    /\ df = << >>
    /\ ran = << >>
    /\ row_count = 0
    /\ regions_count = 0
    /\ top_products_list = << >>
    /\ rolling_7d_revenue_by_region = EmptyMap
    /\ result_json = NoResult
    /\ stdout = << >>
    /\ error = "none"

\* ------------------------------------------------------------- helpers
Min(a, b) == IF a < b THEN a ELSE b

RECURSIVE SumOver(_, _)
\* sum of f[x] over the finite set S (Series.sum)
SumOver(f, S) ==
    IF S = {} THEN 0
    ELSE LET x == CHOOSE y \in S : TRUE IN f[x] + SumOver(f, S \ {x})

\* round(float(num/den), 2), in hundredths; a tie goes to the even neighbour
Round2(num, den) ==
    LET scaled == 100 * num
        q      == scaled \div den
        rem    == scaled % den
    IN  IF 2 * rem < den THEN q
        ELSE IF 2 * rem > den THEN q + 1
        ELSE IF q % 2 = 0 THEN q ELSE q + 1

\* ------------------------------------------------- lines 12 and 16: derive
\* variant: the multiplication also rejects a table without rows
HasTextNumberOrEmpty(d) ==
    \/ Len(d) = 0
    \/ \E i \in 1..Len(d) : d[i].units = BadNum \/ d[i].price = BadNum

\* units * price is undefined for text cells (TypeError)
HasTextNumber(d) ==
    \E i \in 1..Len(d) : d[i].units = BadNum \/ d[i].price = BadNum

\* variant: to_datetime(errors="coerce"), nothing is rejected
HasBadDateCoerced(d) == FALSE

\* to_datetime raises on a value it cannot parse
HasBadDate(d) == \E i \in 1..Len(d) : d[i].date = BadDate

WithRevenue(d) ==
    [i \in 1..Len(d) |->
        [date |-> d[i].date, region |-> d[i].region, product |-> d[i].product,
         units |-> d[i].units, price |-> d[i].price,
         revenue |-> d[i].units * d[i].price]]

\* -------------------------------------------------- lines 18-22: counters
\* variant: len(df.dropna()), rows with an empty cell not counted
RowCountComplete(d) ==
    Cardinality({i \in 1..Len(d) :
        d[i].region # NaN /\ d[i].product # NaN /\ d[i].date # NaT})

\* len(df)
RowCount(d) == Len(d)

\* variant: labels folded to lower case before counting
Lower(label) == IF label = "East" THEN "east" ELSE label
NUniqueFolded(d) == Cardinality({Lower(d[i].region) : i \in 1..Len(d)} \ {NaN})

\* Series.nunique(): distinct values, missing values not counted
NUnique(d) == Cardinality({d[i].region : i \in 1..Len(d)} \ {NaN})

\* ----------------------------------------------------- lines 25-40: top N
\* rows of d that belong to product p
ProductRows(d, p) == {i \in 1..Len(d) : d[i].product = p}

RowRevenue(d) == [i \in 1..Len(d) |-> d[i].revenue]

\* variant: no grouping, one entry per row that has a product label
RevenuePerRow(d) ==
    LET Labelled(r) == r.product # NaN
        rows        == SelectSeq(d, Labelled)
    IN  [k \in 1..Len(rows) |->
            [product |-> rows[k].product, revenue |-> rows[k].revenue]]

\* df.groupby("product")["revenue"].sum(): one entry per product label,
\* in ascending label order; rows with a missing label are dropped
GroupByProductSum(d) ==
    LET Present(p) == ProductRows(d, p) # {}
        keys       == SelectSeq(ProductLabels, Present)
    IN  [k \in 1..Len(keys) |->
            [product |-> keys[k],
             revenue |-> SumOver(RowRevenue(d), ProductRows(d, keys[k]))]]

Orderings(m) == {f \in [1..m -> 1..m] : \A i, j \in 1..m : f[i] = f[j] => i = j}

\* variant: ascending=False left out
SortValuesAscending(s) ==
    {t \in {[i \in 1..Len(s) |-> s[f[i]]] : f \in Orderings(Len(s))} :
        \A i \in 1..Len(t) - 1 : t[i].revenue <= t[i + 1].revenue}

\* .sort_values(ascending=False) with the default kind="quicksort", which is
\* not stable: every arrangement with non-increasing revenue is an outcome
SortValuesDescending(s) ==
    {t \in {[i \in 1..Len(s) |-> s[f[i]]] : f \in Orderings(Len(s))} :
        \A i \in 1..Len(t) - 1 : t[i].revenue >= t[i + 1].revenue}

\* variant: .tail(k)
TailN(s, k) == SubSeq(s, Len(s) - Min(k, Len(s)) + 1, Len(s))

\* .head(k)
HeadN(s, k) == SubSeq(s, 1, Min(k, Len(s)))

\* lines 37-40
FormatTop(s) ==
    [i \in 1..Len(s) |->
        [product |-> s[i].product, revenue |-> Round2(s[i].revenue, 1)]]

TopProductsOutcomes(d) ==
    {FormatTop(HeadN(t, n)) : t \in SortValuesDescending(GroupByProductSum(d))}

\* ------------------------------------------- lines 45-67: rolling average
\* rows of d with region r and date dt
RegionDateRows(d, r, dt) ==
    {i \in 1..Len(d) : d[i].region = r /\ d[i].date = dt}

\* df.groupby(['region','date'])['revenue'].sum(): rows whose region or date
\* is missing are dropped
DailyKeys(d) ==
    {<<d[i].region, d[i].date>> : i \in {j \in 1..Len(d) :
                                   d[j].region # NaN /\ d[j].date # NaT}}

DailyRegionRevenue(d) ==
    [k \in DailyKeys(d) |-> SumOver(RowRevenue(d), RegionDateRows(d, k[1], k[2]))]

RECURSIVE SortAscending(_)
\* the dates of S in ascending order (sort_index)
SortAscending(S) ==
    IF S = {} THEN << >>
    ELSE LET lo == CHOOSE x \in S : \A y \in S : x <= y
         IN  <<lo>> \o SortAscending(S \ {lo})

\* the dates of region r, ascending
RegionDates(daily, r) ==
    SortAscending({k[2] : k \in {kk \in DOMAIN daily : kk[1] = r}})

\* variant: a window closed at both ends, eight calendar days
WindowAtClosed(dates, i) ==
    {j \in 1..i : dates[j] >= dates[i] - WindowDays}

\* positions of the window that ends at position i: rolling('7D') takes the
\* rows with date in (date[i] - 7 days, date[i]]
WindowAt(dates, i) ==
    {j \in 1..i : dates[j] > dates[i] - WindowDays}

\* group['revenue'].rolling(window='7D', min_periods=1).mean(), as
\* <<sum, count>> per position
RollingMean(daily, r) ==
    LET dates == RegionDates(daily, r)
        value == [j \in 1..Len(dates) |-> daily[<<r, dates[j]>>]]
    IN  [i \in 1..Len(dates) |->
            <<SumOver(value, WindowAt(dates, i)), Cardinality(WindowAt(dates, i))>>]

\* lines 62-67
LastRollingValue(daily, r) ==
    LET rolling_avg == RollingMean(daily, r)
    IN  IF Len(rolling_avg) = 0 THEN None
        ELSE LET last == rolling_avg[Len(rolling_avg)]
             IN  Round2(last[1], last[2])

\* line 54: the regions that groupby('region') iterates over
DailyRegions(daily) == {k[1] : k \in DOMAIN daily}

RollingByRegion(d) ==
    LET daily == DailyRegionRevenue(d)
    IN  [r \in DailyRegions(daily) |-> LastRollingValue(daily, r)]

\* ------------------------------------------------------------------ steps
HasRun(b) == \E i \in 1..Len(ran) : ran[i] = b

Results == <<ran, row_count, regions_count, top_products_list,
             rolling_7d_revenue_by_region, result_json>>

\* line 9: df = pd.read_csv("data.csv")
ReadCsv ==
    /\ pc = "start"
    /\ fileExists
    /\ df' = table
    /\ pc' = "loaded"
    /\ UNCHANGED <<fileExists, table, Results, stdout, error>>

ReadCsvFail ==
    /\ pc = "start"
    /\ ~fileExists
    /\ pc' = "failed"
    /\ error' = "FileNotFoundError"
    /\ UNCHANGED <<fileExists, table, df, Results, stdout>>

\* line 12: df["revenue"] = df["units"] * df["price"]
DeriveRevenue ==
    /\ pc = "loaded"
    /\ ~HasTextNumber(df)
    /\ df' = WithRevenue(df)
    /\ pc' = "derived"
    /\ UNCHANGED <<fileExists, table, Results, stdout, error>>

DeriveRevenueFail ==
    /\ pc = "loaded"
    /\ HasTextNumber(df)
    /\ pc' = "failed"
    /\ error' = "TypeError"
    /\ UNCHANGED <<fileExists, table, df, Results, stdout>>

\* line 16: df["date"] = pd.to_datetime(df["date"])
ParseDate ==
    /\ pc = "derived"
    /\ ~HasBadDate(df)
    /\ pc' = "parsed"
    /\ UNCHANGED <<fileExists, table, df, Results, stdout, error>>

ParseDateFail ==
    /\ pc = "derived"
    /\ HasBadDate(df)
    /\ pc' = "failed"
    /\ error' = "ParseError"
    /\ UNCHANGED <<fileExists, table, df, Results, stdout>>

\* The three aggregation blocks.  main() runs them as written (counts, top N,
\* rolling); the model lets them run in any order.

\* lines 18-22
Counts ==
    /\ pc = "parsed"
    /\ ~HasRun("counts")
    /\ row_count' = RowCount(df)
    /\ regions_count' = NUnique(df)
    /\ ran' = Append(ran, "counts")
    /\ UNCHANGED <<fileExists, table, pc, df, top_products_list,
                   rolling_7d_revenue_by_region, result_json, stdout, error>>

\* lines 25-40
TopN ==
    /\ pc = "parsed"
    /\ ~HasRun("top")
    /\ top_products_list' \in TopProductsOutcomes(df)
    /\ ran' = Append(ran, "top")
    /\ UNCHANGED <<fileExists, table, pc, df, row_count, regions_count,
                   rolling_7d_revenue_by_region, result_json, stdout, error>>

\* variant: the rows without region or date are dropped from df itself
RollingInPlace ==
    /\ pc = "parsed"
    /\ ~HasRun("rolling")
    /\ rolling_7d_revenue_by_region' = RollingByRegion(df)
    /\ df' = SelectSeq(df, LAMBDA r : r.region # NaN /\ r.date # NaT)
    /\ ran' = Append(ran, "rolling")
    /\ UNCHANGED <<fileExists, table, pc, row_count, regions_count,
                   top_products_list, result_json, stdout, error>>

\* lines 45-67
Rolling ==
    /\ pc = "parsed"
    /\ ~HasRun("rolling")
    /\ rolling_7d_revenue_by_region' = RollingByRegion(df)
    /\ ran' = Append(ran, "rolling")
    /\ UNCHANGED <<fileExists, table, pc, df, row_count, regions_count,
                   top_products_list, result_json, stdout, error>>

\* lines 70-75
BuildResult ==
    /\ pc = "parsed"
    /\ HasRun("counts") /\ HasRun("top") /\ HasRun("rolling")
    /\ result_json' = [row_count |-> row_count,
                       regions_count |-> regions_count,
                       top_n_products_by_revenue |-> top_products_list,
                       rolling_7d_revenue_by_region |-> rolling_7d_revenue_by_region]
    /\ pc' = "built"
    /\ UNCHANGED <<fileExists, table, df, ran, row_count, regions_count,
                   top_products_list, rolling_7d_revenue_by_region, stdout, error>>

\* line 78: print(json.dumps(result_json, indent=2))
PrintResult ==
    /\ pc = "built"
    /\ stdout' = Append(stdout, result_json)
    /\ pc' = "done"
    /\ UNCHANGED <<fileExists, table, df, Results, error>>

Next ==
    \/ ReadCsv \/ ReadCsvFail
    \/ DeriveRevenue \/ DeriveRevenueFail
    \/ ParseDate \/ ParseDateFail
    \/ Counts \/ TopN \/ Rolling
    \/ BuildResult \/ PrintResult

Spec == Init /\ [][Next]_vars

\* ================================================================ claims
\* The input side of every statement is read from `table`, the rows of
\* data.csv, and the output side from the object that was printed.

Emitted == pc = "done" /\ Len(stdout) = 1
Report  == stdout[1]
TopList == Report.top_n_products_by_revenue
RollMap == Report.rolling_7d_revenue_by_region

Rows             == 1..Len(table)
Amount           == [i \in Rows |-> table[i].units * table[i].price]
InputRegions     == {table[i].region : i \in Rows} \ {NaN}
InputProducts    == {table[i].product : i \in Rows} \ {NaN}
ProductTotal(p)  == SumOver(Amount, {i \in Rows : table[i].product = p})
FirstSeen(p)     == CHOOSE i \in Rows :
                        /\ table[i].product = p
                        /\ \A j \in Rows : table[j].product = p => i <= j
Listed           == {TopList[i].product : i \in 1..Len(TopList)}
DatesOf(r)       == {table[i].date : i \in {j \in Rows : table[j].region = r}} \ {NaT}
DatedRegions     == {r \in InputRegions : DatesOf(r) # {}}
LastDate(r)      == CHOOSE d \in DatesOf(r) : \A e \in DatesOf(r) : e <= d
Trailing(r)      == {d \in DatesOf(r) : LastDate(r) - 6 <= d /\ d <= LastDate(r)}
DayTotal(r, d)   == SumOver(Amount, {i \in Rows : table[i].region = r /\ table[i].date = d})
TrailingTotal(r) == SumOver([d \in Trailing(r) |-> DayTotal(r, d)], Trailing(r))
Abs(x)           == IF x < 0 THEN -x ELSE x

\* ---- C1
\* C1 as stated: for every region with a dated record, the reported value
\* (in hundredths) is exactly the mean of the daily sums over the dates in
\* [last - 6, last].
C1_ExactMean ==
    Emitted =>
        \A r \in DatedRegions :
            /\ r \in DOMAIN RollMap
            /\ RollMap[r] * Cardinality(Trailing(r)) = 100 * TrailingTotal(r)

\* C1 amended: the reported value is that mean rounded to two decimals, i.e.
\* the hundredth nearest to the mean of the daily sums over [last - 6, last].
C1_RoundedMean ==
    Emitted =>
        \A r \in DatedRegions :
            /\ r \in DOMAIN RollMap
            /\ 2 * Abs(100 * TrailingTotal(r) - RollMap[r] * Cardinality(Trailing(r)))
                   <= Cardinality(Trailing(r))

\* a region with revenue on two days more than six days apart reports the
\* later day's total alone, and that total differs from the two-day mean
C1_Witness ==
    /\ Emitted
    /\ \E r \in DatedRegions :
          /\ DatesOf(r) = {1, 8}
          /\ DayTotal(r, 1) # DayTotal(r, 8)
          /\ RollMap[r] = 100 * DayTotal(r, 8)

C3_Descending ==
    Emitted =>
        /\ \A i \in 1..Len(TopList) - 1 :
              ProductTotal(TopList[i].product) >= ProductTotal(TopList[i + 1].product)
        /\ \A q \in InputProducts \ Listed : \A p \in Listed :
              ProductTotal(q) <= ProductTotal(p)

\* a product is left out and the list holds products of different revenue
C3_Witness ==
    /\ Emitted
    /\ InputProducts \ Listed # {}
    /\ Len(TopList) = n
    /\ ProductTotal(TopList[1].product) > ProductTotal(TopList[n].product)

\* ---- C4
\* C4: the list has min(3, number of distinct products) entries and no
\* product twice.
C4_Length ==
    Emitted =>
        /\ Len(TopList) = Min(3, Cardinality(InputProducts))
        /\ \A i, j \in 1..Len(TopList) :
              TopList[i].product = TopList[j].product => i = j

\* more than three distinct products, three listed
C4_Witness ==
    /\ Emitted
    /\ Cardinality(InputProducts) > 3
    /\ Len(TopList) = 3

\* ---- C5
\* C5: the keys of the rolling map are exactly the distinct regions of the
\* input, so there are regions_count of them.
C5_KeysAreRegions ==
    Emitted =>
        /\ DOMAIN RollMap = InputRegions
        /\ Cardinality(DOMAIN RollMap) = Report.regions_count

\* ---- C6
\* C6: regions_count is the number of distinct region labels of the input,
\* labels compared exactly (case-sensitive).
C6_RegionsCount ==
    Emitted => Report.regions_count = Cardinality(InputRegions)

\* two labels that differ only in case are counted as two regions
C6_Witness ==
    /\ Emitted
    /\ {"East", "east"} \subseteq InputRegions
    /\ Report.regions_count = 2

\* ---- C7
\* C7: the DataFrame has one row per input record at every step, and
\* row_count of the report is the number of input records.
C7_RowCount ==
    /\ pc \in {"loaded", "derived", "parsed", "built", "done"} => Len(df) = Len(table)
    /\ Emitted => Report.row_count = Len(table)

\* a report over rows that the aggregations leave out (no region, no date)
C7_Witness ==
    /\ Emitted
    /\ Len(table) >= 2
    /\ \E i \in Rows : table[i].region = NaN \/ table[i].date = NaT
    /\ Report.row_count = Len(table)

\* ---- C8
\* C8: with zero rows the run never fails, can always take its next step
\* until the report is printed, and the report is the empty one.
C8_EmptyInput ==
    (fileExists /\ table = << >>) =>
        /\ pc # "failed"
        /\ pc # "done" => ENABLED Next
        /\ pc = "done" => stdout = <<NoResult>>

C8_Witness ==
    /\ fileExists
    /\ table = << >>
    /\ pc = "done"
    /\ stdout = <<NoResult>>

\* ---- C9
UnreadableCell ==
    \E i \in Rows : table[i].date = BadDate \/ table[i].units = BadNum
                        \/ table[i].price = BadNum

Derived == WithRevenue(table)

C10_ReportOfDerived ==
    pc = "done" =>
        /\ df = Derived
        /\ Report.row_count = RowCount(Derived)
        /\ Report.regions_count = NUnique(Derived)
        /\ TopList \in TopProductsOutcomes(Derived)
        /\ RollMap = RollingByRegion(Derived)

C10_Frame ==
    (pc = "parsed" /\ pc' = "parsed") =>
        /\ df' = df
        /\ HasRun("counts") => (row_count' = row_count /\ regions_count' = regions_count)
        /\ HasRun("top") => top_products_list' = top_products_list
        /\ HasRun("rolling") =>
              rolling_7d_revenue_by_region' = rolling_7d_revenue_by_region

\* C10: an aggregation block leaves the derived table and the results of the
\* blocks that ran before it unchanged, and whatever the order of the three
\* blocks the printed report is a report of the derived table.
C10_OrderIndependent == [](C10_ReportOfDerived) /\ [][C10_Frame]_vars

\* a report printed after the blocks ran in the reverse of the written order
C10_Witness ==
    /\ pc = "done"
    /\ ran = <<"rolling", "top", "counts">>
    /\ Len(table) >= 2
    /\ Report.row_count = Len(table)
====
